---- MODULE Spec2Model ----
(***************************************************************************)
(* A model of the tile-archive access layer of rust-mbtileserver:          *)
(*   utils.rs  get_data_format, decode                                     *)
(*   tiles.rs  get_data_format_via_query, get_tile_details,                *)
(*             discover_tilesets, get_grid_info, get_template,             *)
(*             get_grid_data, get_tile_data, get_blank_image               *)
(* Bytes are integers 0..255, byte buffers and strings are sequences.      *)
(* A Rust panic (unwrap on Err/None, slice index out of range) is the      *)
(* result tag "Panic"; a returned Err(Error) is the tag "Err".             *)
(***************************************************************************)
EXTENDS Integers, Sequences, FiniteSets, TLC

VARIABLES
    fbuf,       \* get_data_format: the buffer passed in
    fres,       \* get_data_format: "none" before the call, then its outcome
    oarch,      \* get_tile_details: the archive file it is called on
    ores,       \* get_tile_details: Pending before the call, then its outcome
    tree,       \* discover_tilesets: the entries of the root directory
    stack,      \* discover_tilesets: the frames of the recursion, innermost last
    wres,       \* discover_tilesets: the outcomes of the walks made so far
    files,      \* the archive file at each path the requests name
    req,        \* each request: its query, its position in it, its outcome
    handles,    \* the archive handles that are open
    nextId      \* the number the next handle opened is given

vars == <<fbuf, fres, oarch, ores, tree, stack, wres, files, req, handles, nextId>>

fvars == <<fbuf, fres>>
ovars == <<oarch, ores>>
wvars == <<tree, stack, wres>>
qvars == <<files, req, handles, nextId>>

\* ------------------------------------------------------------------
\* Bounds of the model
\* ------------------------------------------------------------------
\* Longest run of zero bytes appended after a magic prefix.
MaxPad == 14

\* Number of requests in flight at once.
NumReqs == 2

\* ------------------------------------------------------------------
\* utils.rs: DataFormat and get_data_format
\* ------------------------------------------------------------------
DataFormat == {"PNG", "JPG", "WEBP", "JSON", "PBF", "GZIP", "ZLIB", "UNKNOWN"}

GZIP_MAGIC == <<31, 139>>

ZLIB_MAGIC == <<120, 156>>

PNG_MAGIC  == <<137, 80, 78, 71, 13, 10, 26, 10>>

JPG_MAGIC  == <<255, 216, 255>>

\* "RIFF", then the four size bytes c0 00 00 00, then "WEBP", then "VP"
WEBP_MAGIC == <<82, 73, 70, 70, 192, 0, 0, 0, 87, 69, 66, 80, 86, 80>>

\* The arms of the match, in source order.
MatchArms ==
    << [magic |-> GZIP_MAGIC, format |-> "GZIP"],
       [magic |-> ZLIB_MAGIC, format |-> "ZLIB"],
       [magic |-> PNG_MAGIC,  format |-> "PNG"],
       [magic |-> JPG_MAGIC,  format |-> "JPG"],
       [magic |-> WEBP_MAGIC, format |-> "WEBP"] >>

\* The guard `&v[0..n] == magic` of arm i and the arms after it: the slice
\* v[0..n] panics when n exceeds the length of v, before any comparison.
RECURSIVE match_from(_, _)
match_from(v, i) ==
    IF i > Len(MatchArms) THEN "UNKNOWN"
    ELSE LET arm == MatchArms[i]
             n   == Len(arm.magic)
         IN  IF n > Len(v) THEN "Panic"
             ELSE IF SubSeq(v, 1, n) = arm.magic THEN arm.format
             ELSE match_from(v, i + 1)

get_data_format(data) == match_from(data, 1)

\* ------------------------------------------------------------------
\* Values: Option, outcomes, SQLite cells, text
\* ------------------------------------------------------------------
\* Option<T>: None is the empty sequence, Some(x) the one-element sequence.
None == <<>>

Some(x) == <<x>>

Ok(v) == [tag |-> "Ok", v |-> v]

Err == [tag |-> "Err", v |-> <<>>]

Panic == [tag |-> "Panic", v |-> <<>>]

Pending == [tag |-> "Pending", v |-> <<>>]

\* A column value of a row: a BLOB, a TEXT or NULL.
Blob(b) == [t |-> "blob", v |-> b]

Text(s) == [t |-> "text", v |-> s]

Null == [t |-> "null", v |-> <<>>]

\* row.get::<_, Vec<u8>>(i) and row.get::<_, String>(i) succeed only on a
\* column of the matching SQLite type.
IsBlob(c) == c.t = "blob"

IsText(c) == c.t = "text"

\* A String is a sequence of one-character strings.
Digits == {"0", "1", "2", "3", "4", "5", "6", "7", "8", "9"}

DigitVal(c) ==
    CASE c = "0" -> 0 [] c = "1" -> 1 [] c = "2" -> 2 [] c = "3" -> 3
      [] c = "4" -> 4 [] c = "5" -> 5 [] c = "6" -> 6 [] c = "7" -> 7
      [] c = "8" -> 8 [] c = "9" -> 9

\* str::parse::<u32>: an optional '+', then one or more decimal digits whose
\* value is at most u32::MAX. The value is kept as its decimal digits without
\* leading zeros (TLC's integers are narrower than u32); <<>> stands for Err.
U32_MAX == <<"4", "2", "9", "4", "9", "6", "7", "2", "9", "5">>

RECURSIVE strip_zeros(_)
strip_zeros(s) ==
    IF Len(s) > 1 /\ Head(s) = "0" THEN strip_zeros(Tail(s)) ELSE s

\* s <= t for digit strings of equal length
RECURSIVE digits_le(_, _)
digits_le(s, t) ==
    IF s = <<>> THEN TRUE
    ELSE IF DigitVal(Head(s)) < DigitVal(Head(t)) THEN TRUE
    ELSE IF DigitVal(Head(s)) > DigitVal(Head(t)) THEN FALSE
    ELSE digits_le(Tail(s), Tail(t))

parse_u32(s) ==
    LET body == IF s # <<>> /\ Head(s) = "+" THEN Tail(s) ELSE s
        n    == strip_zeros(body)
    IN  IF body = <<>> \/ \E i \in 1..Len(body) : body[i] \notin Digits
        THEN <<>>
        ELSE IF Len(n) > Len(U32_MAX) THEN <<>>
        ELSE IF Len(n) = Len(U32_MAX) /\ ~digits_le(n, U32_MAX) THEN <<>>
        ELSE n

\* str::split(","): the components between the commas (one, possibly
\* empty, when there is no comma).
RECURSIVE split_comma(_, _, _)
split_comma(s, cur, acc) ==
    IF s = <<>> THEN Append(acc, cur)
    ELSE IF Head(s) = "," THEN split_comma(Tail(s), <<>>, Append(acc, cur))
    ELSE split_comma(Tail(s), Append(cur, Head(s)), acc)

\* str::parse::<f64> on the decimal notation the model's inputs use: an
\* optional sign, digits with at most one '.', at least one digit. The value
\* is <<m, k>> for m / 10^k with no trailing zero in the fraction; <<>> is Err.
RECURSIVE f64_digits(_, _, _, _)
f64_digits(s, m, k, dot) ==
    IF s = <<>> THEN <<m, k>>
    ELSE IF Head(s) = "." THEN
        (IF dot THEN <<>> ELSE f64_digits(Tail(s), m, k, TRUE))
    ELSE IF Head(s) \notin Digits THEN <<>>
    ELSE f64_digits(Tail(s), m * 10 + DigitVal(Head(s)),
                    IF dot THEN k + 1 ELSE k, dot)

RECURSIVE f64_norm(_)
f64_norm(v) ==
    IF v[2] > 0 /\ v[1] % 10 = 0 THEN f64_norm(<<v[1] \div 10, v[2] - 1>>)
    ELSE v

parse_f64(s) ==
    LET signed == s # <<>> /\ Head(s) \in {"+", "-"}
        body   == IF signed THEN Tail(s) ELSE s
        v      == f64_digits(body, 0, 0, FALSE)
    IN  IF \A i \in 1..Len(body) : body[i] \notin Digits THEN <<>>
        ELSE IF v = <<>> THEN <<>>
        ELSE LET n == f64_norm(v)
             IN  IF signed /\ Head(s) = "-" THEN <<0 - n[1], n[2]>> ELSE n

\* value.split(",").filter_map(|s| s.parse().ok()).collect()
RECURSIVE filter_map_f64(_)
filter_map_f64(parts) ==
    IF parts = <<>> THEN <<>>
    ELSE LET v == parse_f64(Head(parts))
         IN  IF v = <<>> THEN filter_map_f64(Tail(parts))
             ELSE <<v>> \o filter_map_f64(Tail(parts))

parse_bounds(value) == filter_map_f64(split_comma(value, <<>>, <<>>))

\* ------------------------------------------------------------------
\* utils.rs: encode and decode
\* ------------------------------------------------------------------
\* The characters the model's documents are written in, with their codes.
Ascii ==
    << <<33, "!">>, <<34, "\"">>, <<44, ",">>, <<58, ":">>, <<91, "[">>,
       <<93, "]">>, <<100, "d">>, <<101, "e">>, <<103, "g">>, <<105, "i">>,
       <<107, "k">>, <<114, "r">>, <<115, "s">>, <<121, "y">>, <<123, "{">>,
       <<125, "}">> >>

Chr(b) ==
    IF \E i \in 1..Len(Ascii) : Ascii[i][1] = b
    THEN Ascii[CHOOSE i \in 1..Len(Ascii) : Ascii[i][1] = b][2]
    ELSE "?"

Ord(c) == Ascii[CHOOSE i \in 1..Len(Ascii) : Ascii[i][2] = c][1]

\* str::as_bytes of a text of the model
as_bytes(s) == [i \in 1..Len(s) |-> Ord(s[i])]

\* A GZIP member is modelled as the magic, the method byte 8, the payload
\* stored as it is, and the payload's length modulo 256 as the check; a ZLIB
\* stream as the magic, the payload and the sum of its bytes modulo 251.
RECURSIVE sum_bytes(_)
sum_bytes(b) == IF b = <<>> THEN 0 ELSE (Head(b) + sum_bytes(Tail(b))) % 251

\* GzEncoder::new(Vec::new(), Compression::default()), write_all, finish
encode(data) == GZIP_MAGIC \o <<8>> \o data \o <<Len(data) % 256>>

zlib_encode(data) == ZLIB_MAGIC \o data \o <<sum_bytes(data)>>

\* GzDecoder / ZlibDecoder read to the end: Ok(payload), or Err for a
\* stream that is cut short or fails its check.
gz_inflate(data) ==
    IF Len(data) < 4 \/ data[3] # 8 THEN Err
    ELSE LET body == SubSeq(data, 4, Len(data) - 1)
         IN  IF data[Len(data)] = Len(body) % 256 THEN Ok(body) ELSE Err

zlib_inflate(data) ==
    IF Len(data) < 3 THEN Err
    ELSE LET body == SubSeq(data, 3, Len(data) - 1)
         IN  IF data[Len(data)] = sum_bytes(body) THEN Ok(body) ELSE Err

\* read_to_string(&mut s).unwrap(): the inflated bytes must be UTF-8 (in
\* the model: bytes below 128).
read_to_string(r) ==
    IF r.tag # "Ok" THEN Panic
    ELSE IF \E i \in 1..Len(r.v) : r.v[i] >= 128 THEN Panic
    ELSE Ok([i \in 1..Len(r.v) |-> Chr(r.v[i])])

decode(data, data_type) ==
    CASE data_type = "GZIP" -> read_to_string(gz_inflate(data))
      [] data_type = "ZLIB" -> read_to_string(zlib_inflate(data))
      [] OTHER -> Err

\* ------------------------------------------------------------------
\* serde_json on the documents of the model
\* ------------------------------------------------------------------
\* {"grid":[],"keys":[]}
DocEmptyGrid ==
    <<"{", "\"", "g", "r", "i", "d", "\"", ":", "[", "]", ",",
      "\"", "k", "e", "y", "s", "\"", ":", "[", "]", "}">>

\* {"grid":["!"],"keys":["k"]}
DocGrid ==
    <<"{", "\"", "g", "r", "i", "d", "\"", ":", "[", "\"", "!", "\"", "]", ",",
      "\"", "k", "e", "y", "s", "\"", ":", "[", "\"", "k", "\"", "]", "}">>

\* {"grid":[]}: JSON, but without the "keys" field
DocNoKeys == <<"{", "\"", "g", "r", "i", "d", "\"", ":", "[", "]", "}">>

\* grid: not JSON
DocNotJson == <<"g", "r", "i", "d">>

\* serde_json::from_str::<UTFGridKeys>
from_str_grid_keys(s) ==
    CASE s = DocEmptyGrid -> Ok([grid |-> <<>>, keys |-> <<>>])
      [] s = DocGrid -> Ok([grid |-> <<"!">>, keys |-> <<"k">>])
      [] OTHER -> Err

\* serde_json::from_str::<JSONValue>
from_str_value(s) ==
    CASE s = <<"{", "}">> -> Ok([json |-> "object", members |-> {}])
      [] s = <<"\"", "k", "\"">> -> Ok([json |-> "string", members |-> {"k"}])
      [] s = DocNoKeys -> Ok([json |-> "object", members |-> {"grid"}])
      [] OTHER -> Err

\* ------------------------------------------------------------------
\* An archive file as the queries see it
\* ------------------------------------------------------------------
\* openable      Connection::open_with_flags(READ_ONLY) returns Ok
\* isdb          the file is an SQLite database: a statement can be prepared
\* master        the rows (type, name) of sqlite_master
\* tiles         rows [z, x, y, data] of tiles, in rowid order
\* metadata      rows [name, value] of metadata
\* grids         rows [z, x, y, grid] of grids
\* grid_data     rows [z, x, y, key_name, key_json] of grid_data
\* grid_utfgrid  the cells of column grid_utfgrid of grid_utfgrid
\* Relations that exist have the columns the statements name.
Archive(openable, isdb, master, tiles, metadata, grids, grid_data, grid_utfgrid) ==
    [openable |-> openable, isdb |-> isdb, master |-> master,
     tiles |-> tiles, metadata |-> metadata, grids |-> grids,
     grid_data |-> grid_data, grid_utfgrid |-> grid_utfgrid]

TileRow(z, x, y, data) == [z |-> z, x |-> x, y |-> y, data |-> data]

MetaRow(name, value) == [name |-> Text(name), value |-> value]

GridRow(z, x, y, grid) == [z |-> z, x |-> x, y |-> y, grid |-> grid]

KeyRow(z, x, y, key_name, key_json) ==
    [z |-> z, x |-> x, y |-> y, key_name |-> key_name, key_json |-> key_json]

\* A row of sqlite_master.
Obj(type, name) == [type |-> type, name |-> name]

\* A statement over relation n prepares when a table or a view has that name.
HasRelation(a, n) ==
    \E m \in a.master : m.name = n /\ m.type \in {"table", "view"}

CanPrepare(a, relations) ==
    a.isdb /\ \A n \in relations : HasRelation(a, n)

\* SELECT count( * ) FROM sqlite_master WHERE name IN (names)
CountMaster(a, names) == Cardinality({m \in a.master : m.name \in names})

GridObjects == {"grids", "grid_data", "grid_utfgrid", "keymap", "grid_key"}

\* A file that cannot be opened, and a file that is not a database.
NoFile == Archive(FALSE, FALSE, {}, <<>>, <<>>, <<>>, <<>>, <<>>)

Garbage == Archive(TRUE, FALSE, {}, <<>>, <<>>, <<>>, <<>>, <<>>)

\* ------------------------------------------------------------------
\* tiles.rs: get_data_format_via_query, get_grid_info, get_tile_details
\* ------------------------------------------------------------------
\* The first row's payload is classified; no row gives UNKNOWN; a payload
\* that is not a BLOB panics in row.get(0).unwrap(), a short one in
\* get_data_format.
get_data_format_via_query(a, category) ==
    IF category \notin {"tile", "grid"} THEN Err
    ELSE LET rel  == IF category = "tile" THEN "tiles" ELSE "grid_utfgrid"
             rows == IF category = "tile"
                     THEN [i \in 1..Len(a.tiles) |-> a.tiles[i].data]
                     ELSE a.grid_utfgrid
         IN  IF ~CanPrepare(a, {rel}) THEN Err
             ELSE IF rows = <<>> THEN Ok("UNKNOWN")
             ELSE IF ~IsBlob(rows[1]) THEN Panic
             ELSE LET f == get_data_format(rows[1].v)
                  IN  IF f = "Panic" THEN Panic ELSE Ok(f)

\* tiles.rs: get_grid_info. The count statement is prepared on the
\* connection get_tile_details has already prepared one on.
get_grid_info(a) ==
    IF CountMaster(a, GridObjects) = 5 THEN
        LET r == get_data_format_via_query(a, "grid")
        IN  CASE r.tag = "Ok" -> Ok(Some(r.v))
              [] r.tag = "Err" -> Ok(None)
              [] OTHER -> Panic
    ELSE Ok(None)

NewTileMeta(path, tile_name, tile_format, grid_format) ==
    [path |-> path, name |-> None, version |-> None,
     tilejson |-> "2.1.0", scheme |-> "xyz", id |-> tile_name,
     tile_format |-> tile_format, grid_format |-> grid_format,
     bounds |-> None, minzoom |-> None, maxzoom |-> None,
     description |-> None, attribution |-> None, legend |-> None,
     template |-> None]

\* One turn of the `while let Some(row)` loop over
\* SELECT name, value FROM metadata WHERE value IS NOT ''
SetField(meta, label, value) ==
    CASE label = "name" -> Ok([meta EXCEPT !.name = Some(value)])
      [] label = "version" -> Ok([meta EXCEPT !.version = Some(value)])
      [] label = "bounds" ->
            Ok([meta EXCEPT !.bounds = Some(parse_bounds(value))])
      [] label = "minzoom" ->
            (IF parse_u32(value) = <<>> THEN Panic
             ELSE Ok([meta EXCEPT !.minzoom = Some(parse_u32(value))]))
      [] label = "maxzoom" ->
            (IF parse_u32(value) = <<>> THEN Panic
             ELSE Ok([meta EXCEPT !.maxzoom = Some(parse_u32(value))]))
      [] label = "description" -> Ok([meta EXCEPT !.description = Some(value)])
      [] label = "attribution" -> Ok([meta EXCEPT !.attribution = Some(value)])
      [] label = "legend" -> Ok([meta EXCEPT !.legend = Some(value)])
      [] label = "template" -> Ok([meta EXCEPT !.template = Some(value)])
      [] OTHER -> Ok(meta)

RECURSIVE read_metadata(_, _)
read_metadata(rows, meta) ==
    IF rows = <<>> THEN Ok(meta)
    ELSE LET row == Head(rows)
         IN  IF row.value = Text(<<>>) THEN read_metadata(Tail(rows), meta)
             ELSE IF ~IsText(row.name) \/ ~IsText(row.value) THEN Panic
             ELSE LET r == SetField(meta, row.name.v, row.value.v)
                  IN  IF r.tag = "Ok" THEN read_metadata(Tail(rows), r.v)
                      ELSE r

get_tile_details(a, path, tile_name) ==
    IF ~a.openable THEN Err
    ELSE IF ~a.isdb THEN Err
    ELSE IF CountMaster(a, {"tiles", "metadata"}) < 2 THEN Err
    ELSE LET tf == get_data_format_via_query(a, "tile")
         IN  IF tf.tag # "Ok" THEN tf
             ELSE LET gf == get_grid_info(a)
                  IN  IF gf.tag # "Ok" THEN gf
                      ELSE IF ~CanPrepare(a, {"metadata"}) THEN Panic
                      ELSE read_metadata(a.metadata,
                               NewTileMeta(path, tile_name, tf.v, gf.v))

\* ------------------------------------------------------------------
\* tiles.rs: get_tile_data, get_template, get_grid_data
\* ------------------------------------------------------------------
BlankImage ==
    <<137, 80, 78, 71, 13, 10, 26, 10, 0, 0, 0, 13, 73, 72, 68, 82, 0, 0, 1,
      0, 0, 0, 1, 0, 1, 3, 0, 0, 0, 102, 188, 58, 37, 0, 0, 0, 3, 80, 76, 84,
      69, 0, 0, 0, 167, 122, 61, 218, 0, 0, 0, 1, 116, 82, 78, 83, 0, 64,
      230, 216, 102, 0, 0, 0, 31, 73, 68, 65, 84, 104, 222, 237, 193, 1, 13,
      0, 0, 0, 194, 32, 251, 167, 54, 199, 55, 96, 0, 0, 0, 0, 0, 0, 0, 0,
      113, 7, 33, 0, 0, 1, 167, 87, 41, 215, 0, 0, 0, 0, 73, 69, 78, 68, 174,
      66, 96, 130>>

get_blank_image == BlankImage

\* The rows of a table WHERE zoom_level = z AND tile_column = x AND tile_row = y
SelectAt(rows, z, x, y) ==
    SelectSeq(rows, LAMBDA row : row.z = z /\ row.x = x /\ row.y = y)

\* get_tile_data after the connection is open: the statement is prepared
\* (unwrap), the first matching row's payload is returned, and any error of
\* query_row gives the blank image; a payload that is not a BLOB panics in
\* row.get(0).unwrap().
tile_query(a, z, x, y) ==
    IF ~CanPrepare(a, {"tiles"}) THEN Panic
    ELSE LET rows == SelectAt(a.tiles, z, x, y)
         IN  IF rows = <<>> THEN Ok(get_blank_image)
             ELSE IF ~IsBlob(rows[1].data) THEN Panic
             ELSE Ok(rows[1].data.v)

\* get_template after the connection is open.
template_query(a) ==
    LET r == get_data_format_via_query(a, "tile")
    IN  CASE r.tag = "Ok" ->
               (IF r.v = "PBF" THEN Ok("templates/map_vector.html")
                ELSE Ok("templates/map.html"))
          [] r.tag = "Err" -> Err
          [] OTHER -> Panic

EmptyMap == [k \in {} |-> {}]

\* HashMap::insert: a present key is overwritten.
insert(m, k, v) == [x \in DOMAIN m \cup {k} |-> IF x = k THEN v ELSE m[x]]

\* HashMap::extend: the entries of c are inserted into m.
extend(m, c) ==
    [x \in DOMAIN m \cup DOMAIN c |-> IF x \in DOMAIN c THEN c[x] ELSE m[x]]

\* get_grid_data after the connection is open, up to the UTFGrid with its
\* data still empty.
grid_query(a, z, x, y) ==
    IF ~CanPrepare(a, {"grids"}) THEN Panic
    ELSE LET rows == SelectAt(a.grids, z, x, y)
         IN  IF rows = <<>> THEN Err
             ELSE IF ~IsBlob(rows[1].grid) THEN Panic
             ELSE LET grid_data == rows[1].grid.v
                      data_format == get_data_format(grid_data)
                  IN  IF data_format = "Panic" THEN Panic
                      ELSE LET text == decode(grid_data, data_format)
                           IN  IF text.tag # "Ok" THEN Panic
                               ELSE LET doc == from_str_grid_keys(text.v)
                                    IN  IF doc.tag # "Ok" THEN Panic
                                        ELSE Ok([data |-> EmptyMap,
                                                 grid |-> doc.v.grid,
                                                 keys |-> doc.v.keys])

\* The loop `for gd in grid_data_iter`.
RECURSIVE insert_keys(_, _)
insert_keys(rows, grid) ==
    IF rows = <<>> THEN Ok(grid)
    ELSE LET row == Head(rows)
         IN  IF ~IsText(row.key_name) \/ ~IsText(row.key_json) THEN Panic
             ELSE LET v == from_str_value(row.key_json.v)
                  IN  IF v.tag # "Ok" THEN Panic
                      ELSE insert_keys(Tail(rows),
                               [grid EXCEPT !.data = insert(@, row.key_name.v, v.v)])

\* get_grid_data from the second statement on.
grid_keys_query(a, z, x, y, grid) ==
    IF ~CanPrepare(a, {"grid_data"}) THEN Panic
    ELSE insert_keys(SelectAt(a.grid_data, z, x, y), grid)

\* ------------------------------------------------------------------
\* Paths: a file name is a sequence of components, "." among them
\* ------------------------------------------------------------------
RECURSIVE last_dot(_, _)
last_dot(name, i) ==
    IF i = 0 THEN 0 ELSE IF name[i] = "." THEN i ELSE last_dot(name, i - 1)

\* Path::file_stem: the whole name when it has no '.' or only a leading
\* one, otherwise what precedes the final '.'.
file_stem(name) ==
    LET d == last_dot(name, Len(name))
    IN  IF d <= 1 THEN name ELSE SubSeq(name, 1, d - 1)

\* Path::extension: None when the name has no '.' or only a leading one,
\* otherwise what follows the final '.'.
extension(name) ==
    LET d == last_dot(name, Len(name))
    IN  IF d <= 1 THEN None ELSE Some(SubSeq(name, d + 1, Len(name)))

\* A directory entry. A directory holds entries, a file holds an archive.
File(name, arch) ==
    [name |-> name, dir |-> FALSE, arch |-> arch, entries |-> {}]

Dir(name, entries) ==
    [name |-> name, dir |-> TRUE, arch |-> NoFile, entries |-> entries]

\* ------------------------------------------------------------------
\* Inputs of the format detector
\* ------------------------------------------------------------------
Zeros(n) == [i \in 1..n |-> 0]

\* A RIFF/WEBP container header with another value in the size field.
WEBP_OTHER_SIZE == <<82, 73, 70, 70, 36, 1, 0, 0, 87, 69, 66, 80, 86, 80>>

\* A RIFF container that is not WEBP ("WAVE").
RIFF_WAVE == <<82, 73, 70, 70, 192, 0, 0, 0, 87, 65, 86, 69, 102, 109>>

Headers ==
    {GZIP_MAGIC, ZLIB_MAGIC, PNG_MAGIC, JPG_MAGIC, WEBP_MAGIC,
     WEBP_OTHER_SIZE, RIFF_WAVE}

Pads == {<<>>, <<0>>, Zeros(MaxPad)}

FormatInputs ==
    UNION {{SubSeq(h, 1, n) \o pad : n \in 0..Len(h), pad \in Pads} :
               h \in Headers}

\* ------------------------------------------------------------------
\* Archive files get_tile_details is called on
\* ------------------------------------------------------------------
BothTables == {Obj("table", "tiles"), Obj("table", "metadata")}

GridTables == {Obj("table", n) : n \in GridObjects \ {"grid_utfgrid"}}
                  \cup {Obj("view", "grid_utfgrid")}

Masters ==
    { {},
      {Obj("table", "tiles")},
      {Obj("table", "metadata")},
      BothTables,
      {Obj("view", "tiles"), Obj("view", "metadata")},
      {Obj("table", "tiles"), Obj("index", "metadata")},
      {Obj("table", "metadata"), Obj("index", "tiles")},
      {Obj("table", "tiles"), Obj("trigger", "tiles")},
      BothTables \cup GridTables,
      BothTables \cup (GridTables \ {Obj("table", "keymap")}) }

PngTile == PNG_MAGIC \o <<0, 0, 0, 13>>

GzTile == GZIP_MAGIC \o <<8, 0>>

FirstTiles ==
    { <<>>,
      <<TileRow(0, 0, 0, Blob(PngTile))>>,
      <<TileRow(0, 0, 0, Blob(GzTile))>>,
      <<TileRow(0, 0, 0, Blob(<<1>>))>>,
      <<TileRow(0, 0, 0, Null)>> }

MetaTables ==
    { <<>>,
      <<MetaRow("minzoom", Text(<<"0", "3">>)), MetaRow("maxzoom", Text(<<"1", "4">>))>>,
      <<MetaRow("maxzoom", Text(<<"4", "2", "9", "4", "9", "6", "7", "2", "9", "6">>))>>,
      <<MetaRow("name", Text(<<"c">>)), MetaRow("minzoom", Text(<<"a", "b">>))>>,
      <<MetaRow("name", Null)>>,
      <<MetaRow("bounds", Text(<<"-", "1", "0", ",", "x", ",", "4", "0", ".", "5">>)),
        MetaRow("description", Text(<<>>)), MetaRow("other", Text(<<"z">>))>> }

GridUtfRows == {<<>>, <<Blob(GzTile)>>}

\* Rows exist only in relations the schema has.
ArchiveInputs ==
    {NoFile, Garbage} \cup
    { a \in { Archive(TRUE, TRUE, m, t, md, <<>>, <<>>, g) :
                  m \in Masters, t \in FirstTiles, md \in MetaTables,
                  g \in GridUtfRows } :
        /\ a.tiles # <<>> => HasRelation(a, "tiles")
        /\ a.metadata # <<>> => HasRelation(a, "metadata")
        /\ a.grid_utfgrid # <<>> => HasRelation(a, "grid_utfgrid") }

CityPath == <<"city", ".", "mbtiles">>

CityUpper == <<"city", ".", "MBTILES">>

\* ------------------------------------------------------------------
\* Directory trees discover_tilesets walks
\* ------------------------------------------------------------------
ValidPng ==
    Archive(TRUE, TRUE, BothTables, <<TileRow(0, 0, 0, Blob(PngTile))>>,
            <<MetaRow("name", Text(<<"c">>)), MetaRow("minzoom", Text(<<"0">>))>>,
            <<>>, <<>>, <<>>)

ValidEmpty ==
    Archive(TRUE, TRUE, BothTables, <<>>, <<>>, <<>>, <<>>, <<>>)

NoMetadata ==
    Archive(TRUE, TRUE, {Obj("table", "tiles")},
            <<TileRow(0, 0, 0, Blob(PngTile))>>, <<>>, <<>>, <<>>, <<>>)

BadZoom ==
    Archive(TRUE, TRUE, BothTables, <<TileRow(0, 0, 0, Blob(PngTile))>>,
            <<MetaRow("minzoom", Text(<<"a", "b">>))>>, <<>>, <<>>, <<>>)

\* The root holds a file, a directory with a file and a subdirectory "b"
\* with a file, and a second directory with a file. Sibling names differ.
Trees ==
    { {File(n0, c0),
       Dir(d1, {File(CityPath, c1), Dir(<<"b">>, {File(CityPath, c2)})}),
       Dir(d2, {File(CityPath, c3)})} :
        n0 \in {CityPath, CityUpper},
        c0 \in {ValidPng, Garbage},
        d1 \in {<<"a">>, <<"a", ".", "x">>},
        c1 \in {ValidPng, ValidEmpty, NoMetadata, BadZoom},
        c2 \in {ValidPng, Garbage},
        d2 \in {<<"a", ".", "y">>, <<"c">>, <<"d", ".", "mbtiles">>},
        c3 \in {ValidEmpty, NoMetadata} }

\* ------------------------------------------------------------------
\* Archives and requests of the queries
\* ------------------------------------------------------------------
GridSchema == BothTables \cup GridTables

OneTile == <<TileRow(0, 0, 0, Blob(PngTile))>>

GoodKey == KeyRow(0, 0, 0, Text(<<"k">>), Text(<<"{", "}">>))

BadKey == KeyRow(0, 0, 0, Text(<<"j">>), Text(<<"{">>))

GridArchive(grid, keys) ==
    Archive(TRUE, TRUE, GridSchema, OneTile, <<>>,
            <<GridRow(0, 0, 0, grid)>>, keys, <<grid>>)

QFull == GridArchive(Blob(encode(as_bytes(DocGrid))), <<GoodKey>>)

QBadKey == GridArchive(Blob(encode(as_bytes(DocGrid))), <<GoodKey, BadKey>>)

QZlib == GridArchive(Blob(zlib_encode(as_bytes(DocEmptyGrid))), <<>>)

QPngGrid == GridArchive(Blob(PngTile), <<GoodKey>>)

QCorrupt == GridArchive(Blob(GZIP_MAGIC \o <<8>> \o as_bytes(DocGrid) \o <<0>>),
                        <<GoodKey>>)

QNoKeys == GridArchive(Blob(zlib_encode(as_bytes(DocNoKeys))), <<GoodKey>>)

QNotJson == GridArchive(Blob(encode(as_bytes(DocNotJson))), <<GoodKey>>)

QShortGrid == GridArchive(Blob(<<1>>), <<>>)

QNullTile ==
    Archive(TRUE, TRUE, BothTables, <<TileRow(0, 0, 0, Null)>>, <<>>,
            <<>>, <<>>, <<>>)

\* The state names each file; this is what the name stands for.
QueryArchives ==
    [QFull |-> QFull, QBadKey |-> QBadKey, QZlib |-> QZlib,
     QPngGrid |-> QPngGrid, QCorrupt |-> QCorrupt, QNoKeys |-> QNoKeys,
     QNotJson |-> QNotJson, QShortGrid |-> QShortGrid,
     QNullTile |-> QNullTile, ValidEmpty |-> ValidEmpty, NoFile |-> NoFile,
     Garbage |-> Garbage]

Paths == {"p", "q"}

Reqs == 1..NumReqs

\* (z, x, y): the coordinate the archives hold a row for, and one they do not
Coords == {<<0, 0, 0>>, <<0, 1, 0>>}

NewRequest(op, path, c) ==
    [op |-> op, path |-> path, z |-> c[1], x |-> c[2], y |-> c[3],
     pc |-> "call", conn |-> None, res |-> Pending]

\* The archive file a path names.
FileAt(path) == QueryArchives[files[path]]

\* ------------------------------------------------------------------
\* Actions: one call of get_data_format, one call of get_tile_details
\* ------------------------------------------------------------------
\* One call of get_data_format.
Detect ==
    /\ fres = "none"
    /\ fres' = get_data_format(fbuf)
    /\ UNCHANGED <<fbuf, ovars, wvars, qvars>>

\* One call of get_tile_details.
Open ==
    /\ ores = Pending
    /\ ores' = get_tile_details(oarch, CityPath, <<"city">>)
    /\ UNCHANGED <<fvars, oarch, wvars, qvars>>

\* ------------------------------------------------------------------
\* Actions: discover_tilesets
\* ------------------------------------------------------------------
\* The frame of one call discover_tilesets(parent_dir, path): the entries
\* read_dir has still to yield, and the map built so far.
Frame(parent_dir, path, todo) ==
    [parent_dir |-> parent_dir, path |-> path, todo |-> todo,
     tiles |-> EmptyMap]

RootFrame == Frame(<<>>, <<>>, tree)

Top == stack[Len(stack)]

SetTop(f) == [stack EXCEPT ![Len(stack)] = f]

\* The walk main makes is over when its outermost call has returned or a
\* panic has unwound it; the model then starts the walk once more over the
\* same tree, so that two enumeration orders can be compared.
EndWalk(outcome) ==
    /\ wres' = Append(wres, outcome)
    /\ stack' = IF Len(wres) = 0 THEN <<RootFrame>> ELSE <<>>

\* read_dir yields a directory: the recursive call is entered.
EnterDir ==
    /\ stack # <<>>
    /\ \E p \in Top.todo :
        /\ p.dir
        /\ stack' = Append(SetTop([Top EXCEPT !.todo = @ \ {p}]),
                           Frame(Top.parent_dir \o file_stem(p.name) \o <<"/">>,
                                 Append(Top.path, p.name), p.entries))
    /\ UNCHANGED <<fvars, ovars, qvars, tree, wres>>

\* read_dir yields a file with extension "mbtiles".
IndexFile ==
    /\ stack # <<>>
    /\ \E p \in Top.todo :
        /\ ~p.dir
        /\ extension(p.name) = Some(<<"mbtiles">>)
        /\ LET file_name == file_stem(p.name)
               key == Top.parent_dir \o file_name
               r == get_tile_details(p.arch, Append(Top.path, p.name), file_name)
           IN  CASE r.tag = "Ok" ->
                      /\ stack' = SetTop([Top EXCEPT !.todo = @ \ {p},
                                                     !.tiles = insert(@, key, r.v)])
                      /\ wres' = wres
                 [] r.tag = "Err" ->
                      /\ stack' = SetTop([Top EXCEPT !.todo = @ \ {p}])
                      /\ wres' = wres
                 [] OTHER -> EndWalk(Panic)
    /\ UNCHANGED <<fvars, ovars, qvars, tree>>

\* read_dir yields any other file.
SkipFile ==
    /\ stack # <<>>
    /\ \E p \in Top.todo :
        /\ ~p.dir
        /\ extension(p.name) # Some(<<"mbtiles">>)
        /\ stack' = SetTop([Top EXCEPT !.todo = @ \ {p}])
    /\ UNCHANGED <<fvars, ovars, qvars, tree, wres>>

\* A recursive call returns: tiles.extend(discover_tilesets(..)).
ReturnDir ==
    /\ Len(stack) > 1
    /\ Top.todo = {}
    /\ LET caller == stack[Len(stack) - 1]
       IN  stack' = [SubSeq(stack, 1, Len(stack) - 1) EXCEPT
                        ![Len(stack) - 1] =
                            [caller EXCEPT !.tiles = extend(@, Top.tiles)]]
    /\ UNCHANGED <<fvars, ovars, qvars, tree, wres>>

\* The outermost call returns its map to main.
ReturnRoot ==
    /\ Len(stack) = 1
    /\ Top.todo = {}
    /\ EndWalk(Ok(Top.tiles))
    /\ UNCHANGED <<fvars, ovars, qvars, tree>>

WalkNext == EnterDir \/ IndexFile \/ SkipFile \/ ReturnDir \/ ReturnRoot

\* ------------------------------------------------------------------
\* Actions: requests, each running one query on an archive handle of its own
\* ------------------------------------------------------------------
\* The connection is a local of the query function: it is dropped when the
\* function returns a value (Ok or Err) ...
ReleaseOnReturn(hs, r) == {h \in hs : h.owner # r}

\* ... and when a panic unwinds the function.
LeakOnUnwind(hs, r) == hs

ReleaseOnUnwind(hs, r) == {h \in hs : h.owner # r}

Release(hs, r, outcome) ==
    IF outcome.tag = "Panic" THEN ReleaseOnUnwind(hs, r)
    ELSE ReleaseOnReturn(hs, r)

\* Connection::open_with_flags(tile_path, SQLITE_OPEN_READ_ONLY).unwrap()
OpenConn(r) ==
    /\ req[r].pc = "call"
    /\ IF FileAt(req[r].path).openable
       THEN /\ handles' = handles \cup
                    {[id |-> nextId, owner |-> r, path |-> req[r].path]}
            /\ nextId' = nextId + 1
            /\ req' = [req EXCEPT ![r].pc = "query", ![r].conn = Some(nextId)]
       ELSE /\ req' = [req EXCEPT ![r].pc = "done", ![r].res = Panic]
            /\ UNCHANGED <<handles, nextId>>
    /\ UNCHANGED <<fvars, ovars, wvars, files>>

\* The end of a query: its outcome is handed to the caller.
Finish(r, outcome) ==
    /\ req' = [req EXCEPT ![r].pc = "done", ![r].res = outcome, ![r].conn = None]
    /\ handles' = Release(handles, r, outcome)

TileQuery(r) ==
    /\ req[r].pc = "query"
    /\ req[r].op = "tile"
    /\ Finish(r, tile_query(FileAt(req[r].path), req[r].z, req[r].x, req[r].y))
    /\ UNCHANGED <<fvars, ovars, wvars, files, nextId>>

TemplateQuery(r) ==
    /\ req[r].pc = "query"
    /\ req[r].op = "template"
    /\ Finish(r, template_query(FileAt(req[r].path)))
    /\ UNCHANGED <<fvars, ovars, wvars, files, nextId>>

GridQuery(r) ==
    /\ req[r].pc = "query"
    /\ req[r].op = "grid"
    /\ LET g == grid_query(FileAt(req[r].path), req[r].z, req[r].x, req[r].y)
       IN  IF g.tag = "Ok"
           THEN /\ req' = [req EXCEPT ![r].pc = "keys", ![r].res = g]
                /\ UNCHANGED handles
           ELSE Finish(r, g)
    /\ UNCHANGED <<fvars, ovars, wvars, files, nextId>>

GridKeysQuery(r) ==
    /\ req[r].pc = "keys"
    /\ Finish(r, grid_keys_query(FileAt(req[r].path), req[r].z, req[r].x,
                                 req[r].y, req[r].res.v))
    /\ UNCHANGED <<fvars, ovars, wvars, files, nextId>>

QueryNext ==
    \E r \in Reqs :
        \/ OpenConn(r)
        \/ TileQuery(r)
        \/ TemplateQuery(r)
        \/ GridQuery(r)
        \/ GridKeysQuery(r)

\* ------------------------------------------------------------------
\* Specifications
\* ------------------------------------------------------------------
\* The parts of the state a specification does not use stay at these values.
FormatIdle == fbuf = <<>> /\ fres = "idle"

OpenIdle == oarch = NoFile /\ ores = Pending

WalkIdle == tree = {} /\ stack = <<>> /\ wres = <<>>

QueryIdle == files = <<>> /\ req = <<>> /\ handles = {} /\ nextId = 0

FormatInit ==
    /\ fbuf \in FormatInputs
    /\ fres = "none"

OpenInit ==
    /\ oarch \in ArchiveInputs
    /\ ores = Pending

WalkInit ==
    /\ tree \in Trees
    /\ stack = <<RootFrame>>
    /\ wres = <<>>

QueryInit ==
    /\ files \in {[p |-> a, q |-> "QFull"] : a \in DOMAIN QueryArchives}
    /\ req \in [Reqs -> {NewRequest(op, path, c) :
                            op \in {"tile", "grid"}, path \in Paths, c \in Coords}
                        \cup {NewRequest("template", path, <<0, 0, 0>>) :
                                 path \in Paths}]
    /\ handles = {}
    /\ nextId = 1

InitFormat == FormatInit /\ OpenIdle /\ WalkIdle /\ QueryIdle

InitOpen == OpenInit /\ FormatIdle /\ WalkIdle /\ QueryIdle

InitWalk == WalkInit /\ FormatIdle /\ OpenIdle /\ QueryIdle

InitQuery == QueryInit /\ FormatIdle /\ OpenIdle /\ WalkIdle

SpecFormat == InitFormat /\ [][Detect]_vars

SpecOpen == InitOpen /\ [][Open]_vars

SpecWalk == InitWalk /\ [][WalkNext]_vars

SpecQuery == InitQuery /\ [][QueryNext]_vars

\* ------------------------------------------------------------------
\* Claims about get_data_format
\* ------------------------------------------------------------------
StartsWith(v, p) == Len(v) >= Len(p) /\ SubSeq(v, 1, Len(p)) = p

\* 'RIFF' at offset 0 and 'WEBP' at offset 8
IsWebpContainer(v) ==
    /\ Len(v) >= 12
    /\ SubSeq(v, 1, 4) = <<82, 73, 70, 70>>
    /\ SubSeq(v, 9, 12) = <<87, 69, 66, 80>>

\* C4: get_data_format is total - for every buffer it returns a DataFormat,
\* and a buffer that matches no magic number (being too short for it or
\* differing from it) is UNKNOWN.
C4_Total ==
    fres # "none" =>
        /\ fres \in DataFormat
        /\ (\A i \in 1..Len(MatchArms) : ~StartsWith(fbuf, MatchArms[i].magic))
               => fres = "UNKNOWN"

\* C5: classification by magic prefix, first match winning in the order
\* GZIP, ZLIB, PNG, JPG, WEBP; a JPG prefix alone is JPG, and a RIFF/WEBP
\* container is WEBP whatever its size field holds.
C5_Classify ==
    fres # "none" =>
        /\ StartsWith(fbuf, GZIP_MAGIC) => fres = "GZIP"
        /\ StartsWith(fbuf, ZLIB_MAGIC) => fres = "ZLIB"
        /\ StartsWith(fbuf, PNG_MAGIC) => fres = "PNG"
        /\ StartsWith(fbuf, JPG_MAGIC) => fres = "JPG"
        /\ IsWebpContainer(fbuf) => fres = "WEBP"

\* ------------------------------------------------------------------
\* Claims about get_tile_details
\* ------------------------------------------------------------------
\* C9: get_tile_details returns a TileMeta only when 'tiles' and 'metadata'
\* both exist as a table or view; when the file cannot be opened as an
\* archive or fewer than both exist it returns the error value; a returned
\* TileMeta has its tile_format set, UNKNOWN when tiles has no row.
C9_Open ==
    LET both == HasRelation(oarch, "tiles") /\ HasRelation(oarch, "metadata")
    IN  ores # Pending =>
          /\ ores.tag = "Ok" => both
          /\ (~oarch.openable \/ ~oarch.isdb \/ ~both) => ores = Err
          /\ ores.tag = "Ok" =>
                /\ ores.v.tile_format \in DataFormat
                /\ oarch.tiles = <<>> => ores.v.tile_format = "UNKNOWN"

\* ------------------------------------------------------------------
\* Claims about discover_tilesets
\* ------------------------------------------------------------------
\* The regular files of a tree, each with the names of the directories that
\* lead to it from the root.
RECURSIVE FilesOf(_, _)
FilesOf(entries, dirs) ==
    UNION { IF e.dir THEN FilesOf(e.entries, Append(dirs, e.name))
            ELSE {[dirs |-> dirs, name |-> e.name, arch |-> e.arch]} :
            e \in entries }

\* The files the index is to hold: extension exactly "mbtiles" and an
\* archive get_tile_details accepts.
IsValid(f) ==
    /\ extension(f.name) = Some(<<"mbtiles">>)
    /\ get_tile_details(f.arch, Append(f.dirs, f.name), file_stem(f.name)).tag = "Ok"

ValidFiles == {f \in FilesOf(tree, <<>>) : IsValid(f)}

\* The directory names, each followed by "/", then the file stem.
RECURSIVE JoinDirs(_)
JoinDirs(dirs) ==
    IF dirs = <<>> THEN <<>> ELSE Head(dirs) \o <<"/">> \o JoinDirs(Tail(dirs))

RelativeKey(f) == JoinDirs(f.dirs) \o file_stem(f.name)

\* C2: every walk completes and its map holds exactly one entry per valid
\* archive; an archive get_tile_details fails on is skipped and never
\* aborts the walk.
C2_Completes ==
    \A i \in 1..Len(wres) :
        /\ wres[i].tag = "Ok"
        /\ Cardinality(DOMAIN wres[i].v) = Cardinality(ValidFiles)

\* C6: two walks of one tree, whatever order read_dir yields the entries
\* in, return the same map.
C6_Deterministic == Len(wres) = 2 => wres[1] = wres[2]

\* C8: the keys of a returned map are exactly the relative paths of the
\* valid archives: directory names joined by "/", then the file stem.
C8_RelativeKeys ==
    \A i \in 1..Len(wres) :
        wres[i].tag = "Ok" =>
            DOMAIN wres[i].v = {RelativeKey(f) : f \in ValidFiles}

\* C10: in a returned map the id of each TileMeta is the key of its entry.
C10_IdIsKey ==
    \A i \in 1..Len(wres) :
        wres[i].tag = "Ok" =>
            \A k \in DOMAIN wres[i].v : wres[i].v[k].id = k

\* ------------------------------------------------------------------
\* Claims about the queries
\* ------------------------------------------------------------------
Done(r) == req[r].pc = "done"

Arch(r) == FileAt(req[r].path)

\* C1: get_tile_data never fails - a stored row's bytes are returned
\* unchanged, and in every other case (no row, or an error opening the
\* archive or preparing or running the query) the blank PNG is.
C1_TileNeverFails ==
    \A r \in Reqs :
        (Done(r) /\ req[r].op = "tile") =>
            LET rows == SelectAt(Arch(r).tiles, req[r].z, req[r].x, req[r].y)
            IN  IF /\ Arch(r).openable
                   /\ CanPrepare(Arch(r), {"tiles"})
                   /\ rows # <<>>
                   /\ IsBlob(rows[1].data)
                THEN req[r].res = Ok(rows[1].data.v)
                ELSE req[r].res = Ok(BlankImage)

\* The text of a grid blob: inflated by its magic, Err when the blob is
\* neither GZIP nor ZLIB or does not inflate to text.
GridText(b) ==
    LET t == IF StartsWith(b, GZIP_MAGIC) THEN decode(b, "GZIP")
             ELSE IF StartsWith(b, ZLIB_MAGIC) THEN decode(b, "ZLIB")
             ELSE Err
    IN  IF t.tag = "Ok" THEN t ELSE Err

\* C3: get_grid_data on an archive it can open and query reports every
\* failure as an error value - no fault, no partial result: NotFound for an
\* absent row, CorruptData for a blob that is not GZIP/ZLIB, does not
\* inflate or is not a grid document, and an error when one key_json value
\* is malformed.
C3_GridErrors ==
    \A r \in Reqs :
        (/\ Done(r) /\ req[r].op = "grid"
         /\ Arch(r).openable /\ CanPrepare(Arch(r), {"grids", "grid_data"})) =>
            LET grids == SelectAt(Arch(r).grids, req[r].z, req[r].x, req[r].y)
                keys == SelectAt(Arch(r).grid_data, req[r].z, req[r].x, req[r].y)
                blob == grids[1].grid
                text == GridText(blob.v)
            IN  /\ req[r].res.tag \in {"Ok", "Err"}
                /\ req[r].res.tag = "Ok" => DOMAIN req[r].res.v.data =
                       {keys[i].key_name.v : i \in 1..Len(keys)}
                /\ grids = <<>> => req[r].res.tag = "Err"
                /\ (grids # <<>> /\ IsBlob(blob) /\
                      (text = Err \/ from_str_grid_keys(text.v) = Err))
                        => req[r].res.tag = "Err"
                /\ (\E i \in 1..Len(keys) :
                       IsText(keys[i].key_json) /\
                       from_str_value(keys[i].key_json.v) = Err)
                        => req[r].res.tag = "Err"

\* C7: every query has a handle of its own while it runs and none once it
\* has ended, on every exit path; no handle is shared; when no query is in
\* flight no handle is open.
C7_ScopedHandles ==
    /\ \A h1, h2 \in handles :
          (h1.id = h2.id \/ h1.owner = h2.owner) => h1 = h2
    /\ \A r \in Reqs :
          IF req[r].pc \in {"query", "keys"}
          THEN /\ req[r].conn # None
               /\ \E h \in handles :
                     h.owner = r /\ h.id = req[r].conn[1] /\ h.path = req[r].path
          ELSE \A h \in handles : h.owner # r
    /\ (\A r \in Reqs : req[r].pc \in {"call", "done"}) => handles = {}

\* Two queries on one archive file have ended, one by a panic after it had
\* opened its handle and one with a value, and no handle is open.
C7_Witness ==
    \E r1, r2 \in Reqs :
        /\ r1 # r2
        /\ req[r1].path = req[r2].path
        /\ Done(r1) /\ Done(r2)
        /\ Arch(r1).openable
        /\ req[r1].res.tag = "Panic"
        /\ req[r2].res.tag = "Ok"
        /\ handles = {}

====
